---- MODULE Spec2Model ----
(***************************************************************************)
(* A model of qb_timesheets.py: process_files walking files and            *)
(* directories, parse_qb building the per-project summary, create_chart,   *)
(* and write_csv.  Strings are TLA+ strings handled with Len, SubSeq and   *)
(* \o.  A CSV file is the sequence of its rows and a row is the sequence   *)
(* of its fields, as the csv module hands them to the program.  Days are   *)
(* held in thousandths (1.0 day = 1000), exact for whole hours.            *)
(***************************************************************************)
EXTENDS Integers, Sequences, FiniteSets, TLC

VARIABLES files, dirs, pngs, args, mpl, stack, status, err, log, hist, openf

vars == <<files, dirs, pngs, args, mpl, stack, status, err, log, hist, openf>>

(***************************************************************************)
(* Bounds of the model.                                                    *)
(***************************************************************************)
MaxRows == 3

(***************************************************************************)
(* str methods and os.path functions used by the program.                  *)
(***************************************************************************)
startswith(s, p) == Len(s) >= Len(p) /\ SubSeq(s, 1, Len(p)) = p

endswith(s, p) == Len(s) >= Len(p) /\ SubSeq(s, Len(s) - Len(p) + 1, Len(s)) = p

\* s[n:]
SliceFrom(s, n) == IF Len(s) <= n THEN "" ELSE SubSeq(s, n + 1, Len(s))

\* s.rfind(c) for a one-character c, 1-based; 0 when c does not occur.
RECURSIVE RFindFrom(_, _, _)
RFindFrom(s, c, k) ==
    IF k = 0 THEN 0
    ELSE IF SubSeq(s, k, k) = c THEN k
    ELSE RFindFrom(s, c, k - 1)

rfind(s, c) == RFindFrom(s, c, Len(s))

\* os.path.splitext: the extension starts at the last dot of the last
\* component, unless that component has only dots before it.
splitext(p) ==
    LET sepIndex == rfind(p, "/")
        dotIndex == rfind(p, ".")
    IN  IF /\ dotIndex > sepIndex
           /\ \E k \in (sepIndex + 1)..(dotIndex - 1) : SubSeq(p, k, k) # "."
        THEN <<SubSeq(p, 1, dotIndex - 1), SubSeq(p, dotIndex, Len(p))>>
        ELSE <<p, "">>

\* os.path.join of a directory path and a name.
join(root, name) == root \o "/" \o name

dirname(p) == IF rfind(p, "/") = 0 THEN "" ELSE SubSeq(p, 1, rfind(p, "/") - 1)

basename(p) == SliceFrom(p, rfind(p, "/"))

(***************************************************************************)
(* The file system as the program sees it.                                 *)
(***************************************************************************)
isdir(p) == p \in dirs

\* The entries of directory d (d = "" is the current directory).
Entries(d) == {p \in (DOMAIN files) \cup dirs \cup pngs : dirname(p) = d}

SubdirNames(d) == {basename(p) : p \in {q \in Entries(d) : q \in dirs}}

FileNames(d) == {basename(p) : p \in {q \in Entries(d) : q \notin dirs}}

\* The orders in which a directory listing may return the names of S.
Orderings(S) ==
    {s \in [1..Cardinality(S) -> S] : \A a, b \in 1..Cardinality(S) : a # b => s[a] # s[b]}

(***************************************************************************)
(* parse_qb                                                                *)
(***************************************************************************)
None == <<>>

\* csv.DictReader: field n of the row, None when the row is too short.
Field(fields, n) == IF Len(fields) >= n THEN <<fields[n]>> ELSE None

DictRow(fields) == [project |-> Field(fields, 2), Duration |-> Field(fields, 7)]

DigitValue(c) ==
    CASE c = "0" -> 0 [] c = "1" -> 1 [] c = "2" -> 2 [] c = "3" -> 3
      [] c = "4" -> 4 [] c = "5" -> 5 [] c = "6" -> 6 [] c = "7" -> 7
      [] c = "8" -> 8 [] c = "9" -> 9 [] OTHER -> -1

\* float(s) accepts s: here, the non-empty strings of decimal digits.
IsNumber(s) ==
    /\ Len(s) > 0
    /\ \A k \in 1..Len(s) : DigitValue(SubSeq(s, k, k)) >= 0

\* float(s) for such a string.
RECURSIVE FloatOf(_)
FloatOf(s) ==
    IF Len(s) = 0 THEN 0
    ELSE 10 * FloatOf(SubSeq(s, 1, Len(s) - 1)) + DigitValue(SubSeq(s, Len(s), Len(s)))

\* float(row['Duration']) / 8, in thousandths of a day.
DaysOf(s) == (FloatOf(s) * 1000) \div 8

\* days[project] = value on a dict that keeps insertion order: a key already
\* present keeps its place, a new key goes last.
DictSet(days, project, value) ==
    IF \E k \in 1..Len(days) : days[k][1] = project
    THEN [k \in 1..Len(days) |->
             IF days[k][1] = project THEN <<project, value>> ELSE days[k]]
    ELSE Append(days, <<project, value>>)

\* As InsertDesc, but before the items of equal value.
InsertUnstable(sorted, item) ==
    LET before == {k \in 1..Len(sorted) : sorted[k][2] > item[2]}
        n == Cardinality(before)
    IN  SubSeq(sorted, 1, n) \o <<item>> \o SubSeq(sorted, n + 1, Len(sorted))

\* One item put into a list already in descending order, after every item
\* whose value is greater or equal.
InsertDesc(sorted, item) ==
    LET before == {k \in 1..Len(sorted) : sorted[k][2] >= item[2]}
        n == Cardinality(before)
    IN  SubSeq(sorted, 1, n) \o <<item>> \o SubSeq(sorted, n + 1, Len(sorted))

\* sorted(days.items(), key=lambda t: t[1], reverse=True): a stable sort.
RECURSIVE SortedDesc(_)
SortedDesc(items) ==
    IF items = <<>> THEN <<>>
    ELSE InsertDesc(SortedDesc(SubSeq(items, 1, Len(items) - 1)), items[Len(items)])

\* The for loop of parse_qb from row k on; err names the exception raised.
RECURSIVE ParseRows(_, _, _)
ParseRows(rows, k, days) ==
    IF k > Len(rows) THEN [err |-> "none", days |-> days]
    ELSE IF rows[k] = <<>> THEN ParseRows(rows, k + 1, days)
    ELSE LET row == DictRow(rows[k])
         IN  IF row.project = None
             THEN [err |-> "AttributeError", days |-> days]
             ELSE IF startswith(row.project[1], "Total")
             THEN IF row.Duration = None
                  THEN [err |-> "TypeError", days |-> days]
                  ELSE IF ~IsNumber(row.Duration[1])
                  THEN [err |-> "ValueError", days |-> days]
                  ELSE ParseRows(rows, k + 1,
                                 DictSet(days, SliceFrom(row.project[1], 6),
                                         DaysOf(row.Duration[1])))
             ELSE ParseRows(rows, k + 1, days)

parse_qb(rows) ==
    LET r == ParseRows(rows, 1, <<>>)
    IN  IF r.err = "none"
        THEN [err |-> "none", times |-> SortedDesc(r.days)]
        ELSE [err |-> r.err, times |-> <<>>]

(***************************************************************************)
(* write_csv                                                               *)
(***************************************************************************)
DigitChar(n) == SubSeq("0123456789", n + 1, n + 1)

RECURSIVE IntStr(_)
IntStr(n) == IF n < 10 THEN DigitChar(n) ELSE IntStr(n \div 10) \o DigitChar(n % 10)

\* The decimals of m thousandths, without trailing zeros.
FracStr(m) ==
    IF m % 1000 = 0 THEN "0"
    ELSE IF m % 100 = 0 THEN DigitChar(m \div 100)
    ELSE IF m % 10 = 0 THEN DigitChar(m \div 100) \o DigitChar((m \div 10) % 10)
    ELSE DigitChar(m \div 100) \o DigitChar((m \div 10) % 10) \o DigitChar(m % 10)

\* str(time_) as csv.writer writes a float.
FloatStr(v) == IntStr(v \div 1000) \o "." \o FracStr(v % 1000)

\* The rows write_csv writes for a summary.
OutRows(times) ==
    <<(<<"Project", "Days">>)>> \o [k \in 1..Len(times) |-> <<times[k][1], FloatStr(times[k][2])>>]

OutCsv(fin) == splitext(fin)[1] \o "_out.csv"

OutPng(fin) == splitext(fin)[1] \o "_out.png"

(***************************************************************************)
(* The call stack of process_files.  A frame is one call: files and i are  *)
(* the for loop over its arguments, pc the statement it is at, walk the    *)
(* directories os.walk has still to visit, root/dirnames/filenames the     *)
(* triple os.walk yielded last, j the position in the inner for loop, and  *)
(* times the summary of the file being processed.                          *)
(***************************************************************************)
NewFrame(fs) ==
    [files |-> fs, i |-> 1, pc |-> "loop", walk |-> <<>>, root |-> "",
     dirnames |-> <<>>, filenames |-> <<>>, j |-> 1, times |-> <<>>]

Top == stack[Len(stack)]

fin == Top.files[Top.i]

SetTop(f) == [stack EXCEPT ![Len(stack)] = f]

Running == status = "running" /\ stack # <<>>

AtFile == Running /\ Top.i <= Len(Top.files)

\* The test on the name left out.
IsCsvUnchecked(p) == TRUE

\* Line 55: the test the program makes on a name.
IsCsv(p) == endswith(p, ".csv") \/ endswith(p, ".CSV")

\* The end of the loop body, and `continue`: on to the next argument.
NextFile(f) == [f EXCEPT !.i = f.i + 1, !.pc = "loop", !.times = <<>>]

\* Where the two inner for loops of the os.walk body stand: the loop over
\* dirnames, then the loop over filenames, then the next os.walk triple.
InnerLoops(f) ==
    IF f.pc = "dirs" /\ f.j > Len(f.dirnames)
    THEN IF f.filenames = <<>> THEN [f EXCEPT !.pc = "walk", !.j = 1]
         ELSE [f EXCEPT !.pc = "fnames", !.j = 1]
    ELSE IF f.pc = "fnames" /\ f.j > Len(f.filenames)
    THEN [f EXCEPT !.pc = "walk", !.j = 1]
    ELSE f

\* The export test made before the chart test.
AfterParseWriteFirst(a) ==
    IF ~a.no_export THEN "write"
    ELSE IF a.plot \/ a.save_plot THEN "chart"
    ELSE "next"

\* The statement after `times = parse_qb(csv_file)` (lines 64 and 77).
AfterParse(a) ==
    IF a.plot \/ a.save_plot THEN "chart"
    ELSE IF ~a.no_export THEN "write"
    ELSE "next"

\* The statement after the chart block (line 77).
AfterChart(a) == IF ~a.no_export THEN "write" ELSE "next"

Goto(f, pc) == IF pc = "next" THEN NextFile(f) ELSE [f EXCEPT !.pc = pc]

Event(op, path, out, rows, e, times) ==
    [op |-> op, path |-> path, out |-> out, rows |-> rows, err |-> e, times |-> times]

\* An exception nothing catches: every frame is unwound and the run ends.
Raise(e) ==
    /\ status' = "crashed"
    /\ err' = e
    /\ stack' = <<>>

(***************************************************************************)
(* main                                                                    *)
(***************************************************************************)
Main ==
    /\ status = "init"
    /\ status' = "running"
    /\ IF args.files # <<>>
       THEN stack' = <<NewFrame(args.files)>>
       ELSE \E names \in Orderings(SubdirNames("") \cup FileNames("")) :
                stack' = <<NewFrame(names)>>
    /\ UNCHANGED <<files, dirs, pngs, args, mpl, err, log, hist, openf>>

(***************************************************************************)
(* process_files                                                           *)
(***************************************************************************)
\* The for loop over files ends: the call returns to the os.walk body that
\* made it, or the run is over.
Return ==
    /\ Running
    /\ Top.pc = "loop"
    /\ Top.i > Len(Top.files)
    /\ IF Len(stack) = 1
       THEN /\ stack' = <<>>
            /\ status' = "done"
       ELSE LET caller == stack[Len(stack) - 1]
            IN  /\ stack' = Append(SubSeq(stack, 1, Len(stack) - 2),
                                   InnerLoops([caller EXCEPT !.j = caller.j + 1]))
                /\ status' = status
    /\ UNCHANGED <<files, dirs, pngs, args, mpl, err, log, hist, openf>>

\* Lines 45-47: fin is a directory.
SearchDir ==
    /\ AtFile
    /\ Top.pc = "loop"
    /\ isdir(fin)
    /\ log' = Append(log, <<"Searching", fin>>)
    /\ stack' = SetTop([Top EXCEPT !.pc = "walk", !.walk = <<fin>>])
    /\ UNCHANGED <<files, dirs, pngs, args, mpl, status, err, hist, openf>>

\* Line 47: os.walk yields the next directory, listed as it is now, and
\* will go down its subdirectories before the ones already pending.
WalkNext ==
    /\ Running
    /\ Top.pc = "walk"
    /\ Top.walk # <<>>
    /\ LET d == Head(Top.walk)
       IN  \E dn \in Orderings(SubdirNames(d)), fn \in Orderings(FileNames(d)) :
               stack' = SetTop(InnerLoops(
                   [Top EXCEPT !.root = d, !.dirnames = dn, !.filenames = fn,
                               !.pc = "dirs", !.j = 1,
                               !.walk = [k \in 1..Len(dn) |-> join(d, dn[k])]
                                            \o Tail(Top.walk)]))
    /\ UNCHANGED <<files, dirs, pngs, args, mpl, status, err, log, hist, openf>>

\* os.walk is exhausted; line 52: continue.
WalkEnd ==
    /\ Running
    /\ Top.pc = "walk"
    /\ Top.walk = <<>>
    /\ stack' = SetTop(NextFile(Top))
    /\ UNCHANGED <<files, dirs, pngs, args, mpl, status, err, log, hist, openf>>

\* Line 49: process_files(args, join(root, dirnam)).
CallDir ==
    /\ Running
    /\ Top.pc = "dirs"
    /\ stack' = Append(stack, NewFrame(<<join(Top.root, Top.dirnames[Top.j])>>))
    /\ UNCHANGED <<files, dirs, pngs, args, mpl, status, err, log, hist, openf>>

\* Line 51: process_files(args, join(root, filename)).
CallFile ==
    /\ Running
    /\ Top.pc = "fnames"
    /\ stack' = Append(stack, NewFrame(<<join(Top.root, Top.filenames[Top.j])>>))
    /\ UNCHANGED <<files, dirs, pngs, args, mpl, status, err, log, hist, openf>>

\* Lines 55-57: not a CSV name.
IgnoreFile ==
    /\ AtFile
    /\ Top.pc = "loop"
    /\ ~isdir(fin)
    /\ ~IsCsv(fin)
    /\ log' = Append(log, <<"Ignoring", fin>>)
    /\ stack' = SetTop(NextFile(Top))
    /\ UNCHANGED <<files, dirs, pngs, args, mpl, status, err, hist, openf>>

\* Line 59.
StartFile ==
    /\ AtFile
    /\ Top.pc = "loop"
    /\ ~isdir(fin)
    /\ IsCsv(fin)
    /\ log' = Append(log, <<"Processing", fin>>)
    /\ stack' = SetTop([Top EXCEPT !.pc = "open"])
    /\ UNCHANGED <<files, dirs, pngs, args, mpl, status, err, hist, openf>>

\* Line 61: open(fin).
OpenFile ==
    /\ AtFile
    /\ Top.pc = "open"
    /\ IF fin \in DOMAIN files
       THEN /\ openf' = openf \cup {fin}
            /\ hist' = Append(hist, Event("open", fin, "", <<>>, "none", <<>>))
            /\ stack' = SetTop([Top EXCEPT !.pc = "parse"])
            /\ UNCHANGED <<status, err>>
       ELSE /\ Raise("FileNotFoundError")
            /\ UNCHANGED <<openf, hist>>
    /\ UNCHANGED <<files, dirs, pngs, args, mpl, log>>

\* As ParseFile, with a file that fails to parse skipped.
ParseFileIsolated ==
    /\ AtFile
    /\ Top.pc = "parse"
    /\ LET r == parse_qb(files[fin])
       IN  /\ openf' = openf \ {fin}
           /\ hist' = Append(hist, Event("parse", fin, "", files[fin], r.err, r.times))
           /\ IF r.err = "none"
              THEN stack' = SetTop(Goto([Top EXCEPT !.times = r.times], AfterParse(args)))
              ELSE stack' = SetTop(NextFile(Top))
           /\ UNCHANGED <<status, err>>
    /\ UNCHANGED <<files, dirs, pngs, args, mpl, log>>

\* Lines 61-62: times = parse_qb(csv_file); the with block closes the file
\* whether parse_qb returns or raises.
ParseFile ==
    /\ AtFile
    /\ Top.pc = "parse"
    /\ LET r == parse_qb(files[fin])
       IN  /\ openf' = openf \ {fin}
           /\ hist' = Append(hist, Event("parse", fin, "", files[fin], r.err, r.times))
           /\ IF r.err = "none"
              THEN /\ stack' = SetTop(Goto([Top EXCEPT !.times = r.times], AfterParse(args)))
                   /\ UNCHANGED <<status, err>>
              ELSE Raise(r.err)
    /\ UNCHANGED <<files, dirs, pngs, args, mpl, log>>

\* Lines 66, 120-139: create_chart.  When the import fails the except
\* clause logs a message and falls through to np.arange with np unbound.
CreateChart ==
    /\ AtFile
    /\ Top.pc = "chart"
    /\ IF mpl
       THEN /\ hist' = Append(hist, Event("chart", fin, "", <<>>, "none", Top.times))
            /\ stack' = SetTop([Top EXCEPT !.pc = IF args.save_plot THEN "save" ELSE "show"])
            /\ UNCHANGED <<status, err, log>>
       ELSE /\ log' = Append(log, <<"Cannot create chart", fin>>)
            /\ Raise("UnboundLocalError")
            /\ UNCHANGED hist
    /\ UNCHANGED <<files, dirs, pngs, args, mpl, openf>>

\* Lines 68-72: plt.savefig(fout).
SaveFig ==
    /\ AtFile
    /\ Top.pc = "save"
    /\ log' = Append(log, <<"Saving", OutPng(fin)>>)
    /\ pngs' = pngs \cup {OutPng(fin)}
    /\ hist' = Append(hist, Event("savefig", fin, OutPng(fin), <<>>, "none", Top.times))
    /\ stack' = SetTop(IF args.plot THEN [Top EXCEPT !.pc = "show"]
                       ELSE Goto(Top, AfterChart(args)))
    /\ UNCHANGED <<files, dirs, args, mpl, status, err, openf>>

\* Lines 74-75: plt.show().
ShowPlot ==
    /\ AtFile
    /\ Top.pc = "show"
    /\ hist' = Append(hist, Event("show", fin, "", <<>>, "none", Top.times))
    /\ stack' = SetTop(Goto(Top, AfterChart(args)))
    /\ UNCHANGED <<files, dirs, pngs, args, mpl, status, err, log, openf>>

\* Lines 77-79, 142-153: write_csv(fin, times).
WriteCsv ==
    /\ AtFile
    /\ Top.pc = "write"
    /\ log' = Append(log, <<"Writing", OutCsv(fin)>>)
    /\ IF OutCsv(fin) \in dirs
       THEN /\ Raise("IsADirectoryError")
            /\ UNCHANGED <<files, hist>>
       ELSE /\ files' = [p \in (DOMAIN files) \cup {OutCsv(fin)} |->
                            IF p = OutCsv(fin) THEN OutRows(Top.times) ELSE files[p]]
            /\ hist' = Append(hist, Event("write", fin, OutCsv(fin),
                                          OutRows(Top.times), "none", Top.times))
            /\ stack' = SetTop(NextFile(Top))
            /\ UNCHANGED <<status, err>>
    /\ UNCHANGED <<dirs, pngs, args, mpl, openf>>

(***************************************************************************)
(* The inputs.                                                             *)
(***************************************************************************)
Row(label, duration) == <<"a", label, "c", "d", "n", "b", duration>>

Labels == {"Total A", "Total B", "TotalXA", "Totals", "A"}

Durations == {"8", "24", "abc"}

\* Rows of a report: full rows, a one-field row, a row cut after the
\* project, and a blank line.
RowPool == {Row(l, d) : l \in Labels, d \in Durations}
               \cup {<<"x">>, <<"a", "Total A">>, <<>>}

Reports == UNION {[1..n -> RowPool] : n \in 0..MaxRows}

\* The reports the files of a batch run hold.
Good == <<Row("Total A", "8")>>

BadFirst == <<Row("Total B", "abc"), Row("Total A", "8")>>

BadLast == <<Row("Total A", "8"), Row("Total B", "abc")>>

Exported == <<(<<"Project", "Days">>), <<"A", "1.0">>>>

Notes == <<(<<"notes">>)>>

Dirs == {"d", "d/s"}

FilePool == {"a.csv", "a_out.csv", "d/a.csv", "d/b.txt", "d/s/c.csv"}

\* What a file of the pool may hold when the run starts.
Contents(p) ==
    CASE p = "a.csv" -> {Good, BadFirst}
      [] p = "a_out.csv" -> {Exported, BadLast}
      [] p = "d/a.csv" -> {Good, BadLast}
      [] p = "d/s/c.csv" -> {Good, BadFirst}
      [] OTHER -> {Notes}

\* The path arguments of the command line; none means the current directory.
ArgLists == {<<>>, <<"d">>, <<"a.csv", "d">>}

Flags == [plot : BOOLEAN, save_plot : BOOLEAN, no_export : BOOLEAN]

WithFiles(fl, fs) ==
    [plot |-> fl.plot, save_plot |-> fl.save_plot, no_export |-> fl.no_export, files |-> fs]

Start ==
    /\ pngs = {}
    /\ stack = <<>>
    /\ status = "init"
    /\ err = "none"
    /\ log = <<>>
    /\ hist = <<>>
    /\ openf = {}

\* A batch run over a tree of files and directories.
Init ==
    /\ Start
    /\ dirs = Dirs
    /\ \E S \in SUBSET FilePool :
           /\ files \in [S -> UNION {Contents(p) : p \in S}]
           /\ \A p \in S : files[p] \in Contents(p)
    /\ \E fl \in Flags, fs \in ArgLists : args = WithFiles(fl, fs)
    /\ mpl \in BOOLEAN
    /\ (args.plot \/ args.save_plot) \/ mpl

Next ==
    \/ Main
    \/ Return
    \/ SearchDir
    \/ WalkNext
    \/ WalkEnd
    \/ CallDir
    \/ CallFile
    \/ IgnoreFile
    \/ StartFile
    \/ OpenFile
    \/ ParseFile
    \/ CreateChart
    \/ SaveFig
    \/ ShowPlot
    \/ WriteCsv

Spec == Init /\ [][Next]_vars

\* A run on one report, t.csv, whose rows are drawn from RowPool.
InitParse ==
    /\ Start
    /\ dirs = {}
    /\ \E rows \in Reports : files = ("t.csv" :> rows)
    /\ \E b \in BOOLEAN :
           args = [plot |-> FALSE, save_plot |-> FALSE, no_export |-> b, files |-> <<"t.csv">>]
    /\ mpl = TRUE

NextParse ==
    \/ Main
    \/ StartFile
    \/ OpenFile
    \/ ParseFile
    \/ WriteCsv
    \/ Return

SpecParse == InitParse /\ [][NextParse]_vars

(***************************************************************************)
(* The claims.  hist is the sequence of the run's file operations: open,   *)
(* parse (which closes the file), chart, savefig, show and write.          *)
(***************************************************************************)
Events == {hist[k] : k \in 1..Len(hist)}

Parsed == {e \in Events : e.op = "parse" /\ e.err = "none"}

\* C1: a row whose project label does not start with "Total " never
\* contributes an entry to the summary parse_qb returns: every entry of a
\* summary is the name and the duration / 8 of a row whose label starts
\* with "Total ".
C1_OnlyTotalRowsContribute ==
    \A e \in Parsed : \A n \in 1..Len(e.times) :
        \E k \in 1..Len(e.rows) :
            /\ Len(e.rows[k]) >= 7
            /\ startswith(e.rows[k][2], "Total ")
            /\ SliceFrom(e.rows[k][2], 6) = e.times[n][1]
            /\ DaysOf(e.rows[k][7]) = e.times[n][2]

\* C2: when a chart is requested and matplotlib cannot be imported, the run
\* does not crash on the chart, and with export enabled every file that was
\* parsed has its CSV output written once the run is over.
C2_MissingChartNotFatal ==
    ((args.plot \/ args.save_plot) /\ ~mpl) =>
        /\ err # "UnboundLocalError"
        /\ (status = "done" /\ ~args.no_export) =>
               \A e \in Parsed : \E w \in Events : w.op = "write" /\ w.path = e.path

\* C3: when a row of a file that starts with "Total " has a non-numeric
\* duration, parsing that file raises, the run ends there with that error,
\* nothing is written for the file, and no later file is processed.
C3_BadDurationAborts ==
    \A k \in 1..Len(hist) :
        LET e == hist[k]
            bad == {r \in 1..Len(e.rows) :
                       /\ Len(e.rows[r]) >= 7
                       /\ startswith(e.rows[r][2], "Total ")
                       /\ ~IsNumber(e.rows[r][7])}
        IN  (e.op = "parse" /\ bad # {}) =>
                /\ e.err # "none"
                /\ ((\A r \in 1..Len(e.rows) : Len(e.rows[r]) >= 7) => e.err = "ValueError")
                /\ status = "crashed"
                /\ err = e.err
                /\ stack = <<>>
                /\ k = Len(hist)
                /\ openf = {}
                /\ \A w \in Events : w.op \in {"write", "savefig"} => w.path # e.path

\* C3 witness: the run crashed on a file whose bad row is not its first
\* row, after another file was processed, with a CSV file left unopened.
C3_Witness ==
    /\ status = "crashed"
    /\ err = "ValueError"
    /\ Len(hist) >= 4
    /\ hist[Len(hist)].rows = BadLast
    /\ \E w \in Events : w.op = "write"
    /\ \E p \in DOMAIN files :
           IsCsv(p) /\ \A e \in Events : e.path # p /\ e.out # p

\* C4 as stated: the summary is in non-increasing order of value, and of
\* two entries with equal values the one whose value comes from the earlier
\* row of the file is first.
C4_TiesInRowOrder ==
    \A e \in Parsed :
        LET from(n) == CHOOSE k \in 1..Len(e.rows) :
                           /\ Len(e.rows[k]) >= 7
                           /\ startswith(e.rows[k][2], "Total")
                           /\ SliceFrom(e.rows[k][2], 6) = e.times[n][1]
                           /\ \A m \in (k + 1)..Len(e.rows) :
                                  ~(/\ Len(e.rows[m]) >= 7
                                    /\ startswith(e.rows[m][2], "Total")
                                    /\ SliceFrom(e.rows[m][2], 6) = e.times[n][1])
        IN  \A a, b \in 1..Len(e.times) :
                a < b => /\ e.times[a][2] >= e.times[b][2]
                         /\ (e.times[a][2] = e.times[b][2] => from(a) < from(b))

\* C4 amended: the summary is in non-increasing order of value, and of two
\* entries with equal values the one whose project name was produced first
\* (by the earlier first row for that name) is first.
C4_TiesInFirstRowOrder ==
    \A e \in Parsed :
        LET first(n) == CHOOSE k \in 1..Len(e.rows) :
                           /\ Len(e.rows[k]) >= 7
                           /\ startswith(e.rows[k][2], "Total")
                           /\ SliceFrom(e.rows[k][2], 6) = e.times[n][1]
                           /\ \A m \in 1..(k - 1) :
                                  ~(/\ Len(e.rows[m]) >= 7
                                    /\ startswith(e.rows[m][2], "Total")
                                    /\ SliceFrom(e.rows[m][2], 6) = e.times[n][1])
        IN  \A a, b \in 1..Len(e.times) :
                a < b => /\ e.times[a][2] >= e.times[b][2]
                         /\ (e.times[a][2] = e.times[b][2] => first(a) < first(b))

\* C4 witness: a summary with two equal values, the first of them for a
\* project whose Total row is repeated after the other project's row.
C4_Witness ==
    \E e \in Parsed :
        /\ e.rows = <<Row("Total A", "8"), Row("Total B", "24"), Row("Total A", "24")>>
        /\ e.times = <<(<<"A", 3000>>), <<"B", 3000>>>>

\* C5: when several rows starting with "Total " carry the same project
\* name, the summary has exactly one entry for that project and its value is
\* the duration of the last such row divided by 8.
C5_LastTotalRowWins ==
    \A e \in Parsed :
        LET sel == {k \in 1..Len(e.rows) :
                       Len(e.rows[k]) >= 7 /\ startswith(e.rows[k][2], "Total ")}
            name(k) == SliceFrom(e.rows[k][2], 6)
        IN  \A k \in sel :
                (/\ \E m \in sel : m < k /\ name(m) = name(k)
                 /\ \A m \in sel : m > k => name(m) # name(k)) =>
                    /\ Cardinality({n \in 1..Len(e.times) : e.times[n][1] = name(k)}) = 1
                    /\ \E n \in 1..Len(e.times) :
                           e.times[n] = <<name(k), DaysOf(e.rows[k][7])>>

\* C6: a file is opened and parsed only if its name ends in ".csv" or
\* ".CSV"; any other file is logged as ignored, is never opened, and the
\* run does not fail on it; once a run is over every such file under the
\* paths it was given has been logged.
C6_OnlyCsvProcessed ==
    LET csv(p) == endswith(p, ".csv") \/ endswith(p, ".CSV")
        reached(p) == \/ args.files = <<>>
                      \/ \E k \in 1..Len(args.files) :
                             p = args.files[k] \/ startswith(p, args.files[k] \o "/")
    IN  /\ \A e \in Events : csv(e.path)
        /\ \A k \in 1..Len(log) :
               /\ log[k][1] = "Processing" => csv(log[k][2])
               /\ log[k][1] = "Ignoring" => ~csv(log[k][2]) /\ log[k][2] \notin dirs
        /\ status = "crashed" => log # <<>> /\ log[Len(log)][1] # "Ignoring"
        /\ status = "done" =>
               \A p \in DOMAIN files :
                   (~csv(p) /\ reached(p)) =>
                       \E k \in 1..Len(log) : log[k] = <<"Ignoring", p>>

\* C6 witness: a finished run over a directory with a .csv and a .txt file
\* that parsed the first and ignored the second.
C6_Witness ==
    /\ status = "done"
    /\ args.files = <<"d">>
    /\ {"d/a.csv", "d/b.txt"} \subseteq DOMAIN files
    /\ \E e \in Parsed : e.path = "d/a.csv"
    /\ \E k \in 1..Len(log) : log[k] = <<"Ignoring", "d/b.txt">>
    /\ \A e \in Events : e.path # "d/b.txt"

\* C7: a file with no row starting with "Total " gives an empty summary
\* without an error, and with export enabled its output holds only the
\* header row.
C7_NoTotalRowsEmptySummary ==
    \A k \in 1..Len(hist) :
        LET e == hist[k]
            none == \A r \in 1..Len(e.rows) :
                        ~(Len(e.rows[r]) >= 2 /\ startswith(e.rows[r][2], "Total "))
        IN  (e.op = "parse" /\ none) =>
                /\ e.err = "none"
                /\ e.times = <<>>
                /\ status # "crashed"
                /\ \A w \in Events :
                       (w.op = "write" /\ w.path = e.path) =>
                           w.rows = <<(<<"Project", "Days">>)>>

\* C8: the operations on one file come in the order open, parse (which
\* closes the file), chart, savefig, show, write, each present as the flags
\* ask; the operations of another file start only after the last one of
\* this file; and the file is open only between its open and its parse.
C8_StepsInOrder ==
    LET chart == args.plot \/ args.save_plot
        export == ~args.no_export
        follows(x, y) ==
            LET same(op) == y.op = op /\ y.path = x.path
            IN  CASE x.op = "open" -> same("parse")
                  [] x.op = "parse" ->
                        /\ x.err = "none"
                        /\ IF chart THEN same("chart")
                           ELSE IF export THEN same("write") ELSE y.op = "open"
                  [] x.op = "chart" ->
                        IF args.save_plot THEN same("savefig") ELSE same("show")
                  [] x.op = "savefig" ->
                        IF args.plot THEN same("show")
                        ELSE IF export THEN same("write") ELSE y.op = "open"
                  [] x.op = "show" -> IF export THEN same("write") ELSE y.op = "open"
                  [] x.op = "write" -> y.op = "open"
                  [] OTHER -> FALSE
    IN  /\ hist # <<>> => hist[1].op = "open"
        /\ \A k \in 1..(Len(hist) - 1) : follows(hist[k], hist[k + 1])
        /\ openf = IF hist # <<>> /\ hist[Len(hist)].op = "open"
                   THEN {hist[Len(hist)].path} ELSE {}

\* C8 witness: inside a directory walk, a file went through all six
\* operations and the next file was opened after them.
C8_Witness ==
    /\ Len(stack) >= 3
    /\ \E k \in 1..Len(hist) :
           /\ k + 6 <= Len(hist)
           /\ <<hist[k].op, hist[k + 1].op, hist[k + 2].op, hist[k + 3].op,
                hist[k + 4].op, hist[k + 5].op, hist[k + 6].op>>
                  = <<"open", "parse", "chart", "savefig", "show", "write", "open">>
           /\ hist[k + 6].path # hist[k].path

\* C9: when process_files is given a directory, no file under it is opened
\* twice in the run.
C9_EachFileOnce ==
    (Len(args.files) = 1 /\ args.files[1] \in dirs) =>
        \A a, b \in 1..Len(hist) :
            (a < b /\ hist[a].op = "open" /\ hist[b].op = "open") =>
                hist[a].path # hist[b].path

\* C10: a file the run writes is never afterwards opened as an input, and
\* no write replaces a file that the run opens as an input.
C10_OutputsNeverInputs ==
    \A a, b \in 1..Len(hist) :
        (hist[a].op = "write" /\ hist[b].op = "open") => hist[a].out # hist[b].path
====
